---- MODULE Spec2Model ----
(***************************************************************************)
(* Model of server_lookup.py: load_index builds a dict keyed by lowercased *)
(* hostname from a JSON file, lookup retrieves one record, and main either *)
(* lists all hostnames or prints one record.                               *)
(*                                                                         *)
(* A Python str is a sequence of one-character strings.  A JSON value is a *)
(* record [t, s, n]: t is its type, s its characters (t = "str") and n its *)
(* number (t = "num").  An element of the top-level array is [t, hostname] *)
(* where t = "obj" for an object and hostname is the value of its hostname *)
(* member (t = "absent" when the object has none).                         *)
(***************************************************************************)
EXTENDS Integers, Sequences, FiniteSets, TLC

\* Longest hostname, in the file and on the command line.
MaxLen == 1
\* Most elements in the top-level JSON array.
MaxRows == 2

\* The characters strings are drawn from: a letter in both cases and a
\* character that repr() and json.dumps escape, the tab.
Chars == {"A", "a", "\t"}

\* The numbers a JSON number is drawn from: a falsy and a truthy one.
NumVals == {0, 5}

Strings == UNION {[1..m -> Chars] : m \in 0..MaxLen}

Str(s) == [t |-> "str", s |-> s, n |-> 0]
Num(n) == [t |-> "num", s |-> <<>>, n |-> n]
Null == [t |-> "null", s |-> <<>>, n |-> 0]
Absent == [t |-> "absent", s |-> <<>>, n |-> 0]

\* The values the hostname member of an object can have.
HostnameValues == {Absent, Null} \cup {Num(n) : n \in NumVals} \cup {Str(s) : s \in Strings}

\* The elements of the array: objects, and a number (an element that is no object).
Rows == {[t |-> "obj", hostname |-> hv] : hv \in HostnameValues}
          \cup {[t |-> "num", hostname |-> Absent]}

RowSeqs == UNION {[1..m -> Rows] : m \in 0..MaxRows}

\* What --json names: no file, a file that is not JSON, a JSON document whose
\* top-level value is not an array, or a JSON array.
Files == {[kind |-> k, rows |-> <<>>] : k \in {"missing", "invalid", "nonarray"}}
           \cup {[kind |-> "array", rows |-> rs] : rs \in RowSeqs}

\* args.host: None when --host is omitted, else the string given.
Hosts == {[given |-> FALSE, v |-> <<>>]} \cup {[given |-> TRUE, v |-> s] : s \in Strings}

VARIABLES file, host, pc, index, i, names, stdout, exc, exit_code, built, lookups

vars == <<file, host, pc, index, i, names, stdout, exc, exit_code, built, lookups>>

-----------------------------------------------------------------------------
\* str.lower() on one character.
LowerChar(c) == IF c = "A" THEN "a" ELSE c

\* str.lower().
Lower(s) == [j \in 1..Len(s) |-> LowerChar(s[j])]

\* The code point of a character (ord).
Ord(c) == CASE c = "\t" -> 9 [] c = "A" -> 65 [] c = "a" -> 97

\* s < t on Python strings: lexicographic by code point.
RECURSIVE StrLess(_, _)
StrLess(s, t) ==
    IF t = <<>> THEN FALSE
    ELSE IF s = <<>> THEN TRUE
    ELSE IF s[1] # t[1] THEN Ord(s[1]) < Ord(t[1])
    ELSE StrLess(Tail(s), Tail(t))

\* sorted(..., reverse=True): descending.
RECURSIVE sortedReverse(_)
sortedReverse(S) ==
    IF S = {} THEN <<>>
    ELSE LET m == CHOOSE x \in S : \A y \in S \ {x} : StrLess(y, x)
         IN  <<m>> \o sortedReverse(S \ {m})

\* sorted() of a set of strings, ascending.
RECURSIVE sorted(_)
sorted(S) ==
    IF S = {} THEN <<>>
    ELSE LET m == CHOOSE x \in S : \A y \in S \ {x} : StrLess(x, y)
         IN  <<m>> \o sorted(S \ {m})

\* "if hostname is None" in place of "if not hostname".
FalsyIsNone(hv) == hv.t \in {"absent", "null"}

\* A test that only catches the absent member.
FalsyAbsent(hv) == hv.t = "absent"

\* Truthiness of the value row.get("hostname") returns: None (member absent
\* or null), 0 and "" are falsy.
Falsy(hv) ==
    \/ hv.t \in {"absent", "null"}
    \/ hv.t = "num" /\ hv.n = 0
    \/ hv.t = "str" /\ hv.s = <<>>

\* The hostname as written, not lowercased.
IndexKeyRaw(hostname) == hostname

\* The key load_index stores a row under.
IndexKey(hostname) == Lower(hostname)

\* index.setdefault(key, row): the first one wins.
DictSetDefault(d, key, row) ==
    [k \in DOMAIN d \cup {key} |-> IF k \in DOMAIN d THEN d[k] ELSE row]

\* index[key] = row
DictSet(d, key, row) ==
    [k \in DOMAIN d \cup {key} |-> IF k = key THEN row ELSE d[k]]

\* The empty dict.
EmptyDict == [k \in {} |-> Absent]

-----------------------------------------------------------------------------
Init ==
    /\ file \in Files
    /\ host \in Hosts
    /\ pc = "start"
    /\ index = EmptyDict
    /\ i = 1
    /\ names = <<>>
    /\ stdout = <<>>
    /\ exc = "none"
    /\ exit_code = -1
    /\ built = 0
    /\ lookups = 0

\* An exception nothing catches: traceback on stderr, exit status 1.
Raise(e) ==
    /\ pc' = "exited"
    /\ exc' = e
    /\ exit_code' = 1

\* load_index swallowing its own failures and returning an empty index.
LoadIndexReadLenient ==
    /\ pc = "start"
    /\ pc' = "loading"
    /\ index' = [k \in {} |-> Absent]
    /\ i' = 1
    /\ UNCHANGED <<file, host, names, stdout, exc, exit_code, built, lookups>>

\* load_index up to the loop: the file is opened, parsed and checked.
LoadIndexRead ==
    /\ pc = "start"
    /\ IF file.kind = "missing" THEN Raise("FileNotFoundError")
       ELSE IF file.kind = "invalid" THEN Raise("JSONDecodeError")
       ELSE IF file.kind = "nonarray" THEN Raise("ValueError")
       ELSE /\ pc' = "loading"
            /\ UNCHANGED <<exc, exit_code>>
    /\ index' = EmptyDict
    /\ i' = 1
    /\ UNCHANGED <<file, host, names, stdout, built, lookups>>

\* One iteration of the loop of load_index.
LoadIndexRow ==
    /\ pc = "loading"
    /\ i <= Len(file.rows)
    /\ LET row == file.rows[i]
           hostname == row.hostname
       IN  IF row.t # "obj" THEN
               /\ Raise("AttributeError")
               /\ UNCHANGED <<index, i>>
           ELSE IF Falsy(hostname) THEN
               /\ i' = i + 1
               /\ UNCHANGED <<index, pc, exc, exit_code>>
           ELSE IF hostname.t # "str" THEN
               /\ Raise("AttributeError")
               /\ UNCHANGED <<index, i>>
           ELSE
               /\ index' = DictSet(index, IndexKey(hostname.s), row)
               /\ i' = i + 1
               /\ UNCHANGED <<pc, exc, exit_code>>
    /\ UNCHANGED <<file, host, names, stdout, built, lookups>>

\* load_index returns the index to main.
LoadIndexReturn ==
    /\ pc = "loading"
    /\ i > Len(file.rows)
    /\ pc' = "loaded"
    /\ built' = built + 1
    /\ UNCHANGED <<file, host, index, i, names, stdout, exc, exit_code, lookups>>

\* The test main branches on, "not args.host": None and "" are both falsy.
NotHost(h) == ~h.given \/ h.v = <<>>

\* main, listing: the keys are sorted before the first line is printed.
ListSort ==
    /\ pc = "loaded"
    /\ NotHost(host)
    /\ names' = sorted(DOMAIN index)
    /\ pc' = "listing"
    /\ UNCHANGED <<file, host, index, i, stdout, exc, exit_code, built, lookups>>

\* The line the listing prints for a key.
ListLine(d, name) == d[name].hostname.s

\* main, listing: one print per key.
ListPrint ==
    /\ pc = "listing"
    /\ names # <<>>
    /\ stdout' = Append(stdout, ListLine(index, Head(names)))
    /\ names' = Tail(names)
    /\ UNCHANGED <<file, host, pc, index, i, exc, exit_code, built, lookups>>

\* main, listing: the loop is over and main returns.
ListReturn ==
    /\ pc = "listing"
    /\ names = <<>>
    /\ pc' = "exited"
    /\ exit_code' = 0
    /\ UNCHANGED <<file, host, index, i, names, stdout, exc, built, lookups>>

\* The text of the KeyError lookup raises.
NotFoundMessage(hostname) == <<"Hostname not found: ">> \o hostname

\* The requested name as typed, not lowercased.
LookupKeyRaw(hostname) == hostname

\* The key lookup searches for.
LookupKey(hostname) == Lower(hostname)

\* lookup: the record, or the KeyError raised.
lookup(d, hostname) ==
    LET key == LookupKey(hostname)
    IN  IF key \notin DOMAIN d
        THEN [ok |-> FALSE, info |-> [t |-> "obj", hostname |-> Absent],
              msg |-> NotFoundMessage(hostname)]
        ELSE [ok |-> TRUE, info |-> d[key], msg |-> <<>>]

\* The characters of a str over Chars as repr() and json.dumps write
\* them: a tab becomes a backslash and a t.
RECURSIVE Escape(_)
Escape(s) ==
    IF s = <<>> THEN <<>>
    ELSE (IF Head(s) = "\t" THEN <<"\\", "t">> ELSE <<Head(s)>>) \o Escape(Tail(s))

\* repr() of a str over Chars.
Repr(s) == <<"'">> \o Escape(s) \o <<"'">>

\* str(e) of a KeyError with one argument: the repr of the argument.
KeyErrorStr(msg) == Repr(msg)

\* A JSON value as json.dumps writes it.
JsonValue(hv) ==
    CASE hv.t = "str" -> <<"\"">> \o Escape(hv.s) \o <<"\"">>
      [] hv.t = "num" -> <<ToString(hv.n)>>
      [] hv.t = "null" -> <<"null">>

\* json.dumps(info, indent=2).
dumps(info) ==
    IF info.hostname.t = "absent" THEN <<"{}">>
    ELSE <<"{", "\n  ", "\"hostname\"", ": ">> \o JsonValue(info.hostname) \o <<"\n", "}">>

\* main with index.pop(key) in place of lookup: a hit removes the entry.
MainLookupPop ==
    /\ pc = "loaded"
    /\ ~NotHost(host)
    /\ lookups' = lookups + 1
    /\ LET r == lookup(index, host.v)
       IN  IF r.ok THEN
               /\ stdout' = Append(stdout, dumps(r.info))
               /\ index' = [k \in DOMAIN index \ {LookupKey(host.v)} |-> index[k]]
               /\ exit_code' = 0
           ELSE
               /\ stdout' = Append(stdout, KeyErrorStr(r.msg))
               /\ index' = index
               /\ exit_code' = 1
    /\ pc' = "exited"
    /\ UNCHANGED <<file, host, i, names, exc, built>>

\* main, lookup: the record is printed, or the KeyError is caught, its
\* text printed and SystemExit(1) raised.
MainLookup ==
    /\ pc = "loaded"
    /\ ~NotHost(host)
    /\ lookups' = lookups + 1
    /\ LET r == lookup(index, host.v)
       IN  IF r.ok THEN
               /\ stdout' = Append(stdout, dumps(r.info))
               /\ exit_code' = 0
           ELSE
               /\ stdout' = Append(stdout, KeyErrorStr(r.msg))
               /\ exit_code' = 1
    /\ pc' = "exited"
    /\ UNCHANGED <<file, host, index, i, names, exc, built>>

Next ==
    \/ LoadIndexRead
    \/ LoadIndexRow
    \/ LoadIndexReturn
    \/ ListSort
    \/ ListPrint
    \/ ListReturn
    \/ MainLookup

Spec == Init /\ [][Next]_vars

-----------------------------------------------------------------------------
\* The rows of the file that carry a non-empty string hostname.
Named(n) ==
    {j \in 1..n : /\ file.rows[j].t = "obj"
                  /\ file.rows[j].hostname.t = "str"
                  /\ file.rows[j].hostname.s # <<>>}

\* The position of the last of the first n rows whose hostname lowercases to k.
LastAt(n, k) ==
    CHOOSE j \in Named(n) :
        /\ Lower(file.rows[j].hostname.s) = k
        /\ \A m \in Named(n) : Lower(file.rows[m].hostname.s) = k => m <= j

\* The index the first n rows of the file describe.
ExpectedKeys(n) == {Lower(file.rows[j].hostname.s) : j \in Named(n)}

IsExpectedIndex(d, n) ==
    /\ DOMAIN d = ExpectedKeys(n)
    /\ \A k \in ExpectedKeys(n) : d[k] = file.rows[LastAt(n, k)]

\* s occurs in text as a run of consecutive characters.
Contains(text, s) ==
    \E o \in 0..(Len(text) - Len(s)) : SubSeq(text, o + 1, o + Len(s)) = s

\* C1: the index load_index returns has exactly the distinct lowercased
\* non-empty hostnames of the array as keys, and under each key the last
\* element of the array whose hostname lowercases to it.
C1_LastOneWins ==
    built = 1 => IsExpectedIndex(index, Len(file.rows))

\* C1 witness: two elements share a key, differ, and the later one is stored.
C1_Witness ==
    /\ built = 1
    /\ Len(file.rows) = 2
    /\ Named(2) = {1, 2}
    /\ file.rows[1] # file.rows[2]
    /\ DOMAIN index = {Lower(file.rows[1].hostname.s)}
    /\ index[Lower(file.rows[2].hostname.s)] = file.rows[2]

\* C2: in every state, while the index is built and afterwards, each key
\* is the lowercased hostname of the record stored under it.
C2_KeyIsLoweredHostname ==
    \A k \in DOMAIN index :
        /\ index[k].hostname.t = "str"
        /\ k = Lower(index[k].hostname.s)

\* C2 witness: the run is over and a record whose hostname has an upper
\* case letter is stored.
C2_Witness ==
    /\ pc = "exited"
    /\ exit_code = 0
    /\ \E k \in DOMAIN index : index[k].hostname.s # k

\* C3: no element of the array whose hostname is absent or empty is a
\* value of the index.
C3_NoUnnamedRecord ==
    \A j \in 1..Len(file.rows) :
        (file.rows[j].hostname.t = "absent"
           \/ (file.rows[j].hostname.t = "str" /\ file.rows[j].hostname.s = <<>>))
        => \A k \in DOMAIN index : index[k] # file.rows[j]

\* C3 witness: load_index returned a non-empty index for an array that
\* has an object with an empty hostname and one without hostname.
C3_Witness ==
    /\ built = 1
    /\ DOMAIN index # {}
    /\ \E j \in 1..Len(file.rows) :
           file.rows[j].t = "obj" /\ file.rows[j].hostname = Str(<<>>)

\* C4: on the index load_index returns, two requested names with the same
\* lowercase form have the same outcome of lookup: both the record stored
\* under the lowercased name, or both not found.
C4_CaseInsensitive ==
    built = 1 =>
        \A h1, h2 \in Strings :
            Lower(h1) = Lower(h2) =>
                /\ lookup(index, h1).ok = lookup(index, h2).ok
                /\ lookup(index, h1).info = lookup(index, h2).info
                /\ lookup(index, h1).ok <=> Lower(h1) \in DOMAIN index
                /\ lookup(index, h1).ok => lookup(index, h1).info = index[Lower(h1)]

\* C4 witness: a name typed with an upper case letter was looked up and
\* the record stored under its lowercase form was printed.
C4_Witness ==
    /\ pc = "exited"
    /\ lookups = 1
    /\ host.v # Lower(host.v)
    /\ Lower(host.v) \in DOMAIN index
    /\ exit_code = 0
    /\ Len(stdout) = 1

\* C5: without --host, a run that loaded the index ends with exit code 0
\* having printed one line per key, each the original-case hostname of a
\* stored record, in ascending order of the lowercased key.
C5_SortedListing ==
    (pc = "exited" /\ ~host.given /\ exc = "none") =>
        /\ exit_code = 0
        /\ Len(stdout) = Cardinality(DOMAIN index)
        /\ \A j \in 1..Len(stdout) :
               /\ Lower(stdout[j]) \in DOMAIN index
               /\ stdout[j] = index[Lower(stdout[j])].hostname.s
        /\ \A j, k \in 1..Len(stdout) :
               j < k => StrLess(Lower(stdout[j]), Lower(stdout[k]))

\* C5 witness: two lines were printed in the order opposite to the file's,
\* one of them with an upper case letter.
C5_Witness ==
    /\ pc = "exited"
    /\ ~host.given
    /\ Len(stdout) = 2
    /\ Len(file.rows) = 2
    /\ stdout[2] = file.rows[1].hostname.s
    /\ stdout[1] = file.rows[2].hostname.s
    /\ \E j \in 1..2 : stdout[j] # Lower(stdout[j])

\* C6: after a lookup, either the lowercased name is a key, the record
\* stored under it is what was printed and the exit code is 0, or it is
\* not a key, the one line printed contains the name as typed and is no
\* record, and the exit code is 1.
C6_LookupOutcome ==
    (pc = "exited" /\ lookups = 1) =>
        IF Lower(host.v) \in DOMAIN index
        THEN /\ stdout = <<dumps(index[Lower(host.v)])>>
             /\ exit_code = 0
        ELSE /\ Len(stdout) = 1
             /\ Contains(stdout[1], host.v)
             /\ \A k \in DOMAIN index : stdout[1] # dumps(index[k])
             /\ exit_code = 1

\* C7: when the file is missing, is not JSON or is not a JSON array,
\* no index is ever produced, nothing is printed, no lookup runs, and the
\* run ends with the matching error and a non-zero exit status.
C7_LoadFailureIsFatal ==
    file.kind \in {"missing", "invalid", "nonarray"} =>
        /\ built = 0
        /\ DOMAIN index = {}
        /\ stdout = <<>>
        /\ lookups = 0
        /\ pc \in {"start", "exited"}
        /\ pc = "exited" =>
               /\ exit_code # 0
               /\ file.kind = "missing" => exc = "FileNotFoundError"
               /\ file.kind # "missing" => exc \in {"JSONDecodeError", "ValueError"}

\* C7 witness: a run on a JSON document that is no array has ended.
C7_Witness ==
    /\ pc = "exited"
    /\ file.kind = "nonarray"
    /\ exc = "ValueError"
    /\ exit_code = 1

\* C8: when --host is given, with any value, main never lists and a run
\* that loaded the index has looked the name up.
C8_HostGivenNeverLists ==
    host.given =>
        /\ pc # "listing"
        /\ (pc = "exited" /\ exc = "none") => lookups = 1

\* The arrays whose elements are all objects.
ArrayOfObjects ==
    /\ file.kind = "array"
    /\ \A j \in 1..Len(file.rows) : file.rows[j].t = "obj"

\* The hostname values that are a string, or absent, null or zero.
StringOrFalsy(hv) ==
    hv.t \in {"absent", "null", "str"} \/ (hv.t = "num" /\ hv.n = 0)

\* C9 as stated: load_index fails on no array of objects.
C9_ArrayOfObjectsLoads ==
    ArrayOfObjects => exc = "none"

\* C9 amended: on an array of objects whose hostname values are strings
\* or absent, null or zero, load_index does not fail; after each element
\* the index is the one the elements processed so far describe, every
\* element is processed, and the index is returned.
C9_NamedObjectsLoad ==
    (ArrayOfObjects /\ \A j \in 1..Len(file.rows) : StringOrFalsy(file.rows[j].hostname)) =>
        /\ exc = "none"
        /\ pc = "loading" => (i <= Len(file.rows) + 1 /\ IsExpectedIndex(index, i - 1))
        /\ pc \notin {"start", "loading"} =>
               (built = 1 /\ i = Len(file.rows) + 1 /\ IsExpectedIndex(index, Len(file.rows)))

\* C9 witness: the index was returned for an array in which one object
\* was skipped and one inserted.
C9_Witness ==
    /\ built = 1
    /\ ArrayOfObjects
    /\ Len(file.rows) = 2
    /\ Cardinality(Named(2)) = 1
    /\ Cardinality(DOMAIN index) = 1

\* C10: the index is built at most once, every step that prints or looks
\* up is taken after load_index has returned, and no step taken after
\* load_index has returned changes the index.
C10_BuiltOnceThenFrozen ==
    [][/\ built' <= 1
       /\ built >= 1 => (index' = index /\ built' = built)
       /\ (stdout' # stdout \/ lookups' # lookups \/ pc' = "listing") => built = 1]_vars

\* C10 witness: a lookup missed on a non-empty index and the run ended.
C10_Witness ==
    /\ pc = "exited"
    /\ built = 1
    /\ lookups = 1
    /\ exit_code = 1
    /\ DOMAIN index # {}
====
